---- MODULE Spec2Model ----
(***************************************************************************)
(* The Gemini call pipeline of SPAVIX-AI: the four entry points            *)
(* generate_image, detect_room, generate_shopping_list and                 *)
(* generate_product_recommendations, one invocation per behaviour.         *)
(* The environment (GEMINI_API_KEY, the input file, what the remote        *)
(* service answers to each request) is chosen nondeterministically.        *)
(***************************************************************************)
EXTENDS Integers, Sequences, FiniteSets, TLC

\* ---------------------------------------------------------------- bounds
\* Size of a response body: number of candidates plus number of parts.
MaxBodySize == 4

\* ------------------------------------------------------ program constants
max_retries == 3
min_image_size == 10000
text_shown == 100
\* the attempt budget the specification names (maxAttempts)
maxAttempts == 3

\* ---------------------------------------------------------------- inputs
Entries == {"generate_image", "detect_room", "generate_shopping_list",
            "generate_product_recommendations"}
ImageEntries == {"generate_image", "detect_room"}
ApiKeys == {"absent", "empty", "set"}
ImageLens == {0, min_image_size - 1, min_image_size}

\* What one HTTP attempt can end in: a status code or a raised exception.
Statuses == {"200", "429", "500", "403"}
Exceptions == {"Timeout", "RequestException"}
Outcomes == Statuses \cup Exceptions
Retryable == {"429"} \cup Exceptions

\* Texts a part can carry, with their length in characters.
Texts == {"short", "long"}
TextLen(t) == IF t = "short" THEN 12 ELSE text_shown + 1

\* A part of a candidate: the inlineData key (absent, present without data,
\* or present with base64 data of image A or B) and the text key.
PartKinds ==
    { [inlineData |-> "imgA", text |-> "absent"],
      [inlineData |-> "imgB", text |-> "absent"],
      [inlineData |-> "nodata", text |-> "absent"],
      [inlineData |-> "nodata", text |-> "short"],
      [inlineData |-> "absent", text |-> "short"],
      [inlineData |-> "absent", text |-> "long"],
      [inlineData |-> "absent", text |-> "absent"] }
FinishReasons == {"STOP", "NO_IMAGE"}

PartSeqs(n) == [1..n -> PartKinds]

\* Candidates with exactly n parts.  A candidate without parts is one
\* without a content key, one whose content has no parts key, or one whose
\* parts list is empty.
CandidatesOf(n) ==
    IF n = 0
    THEN { [finishReason |-> f, shape |-> s, parts |-> <<>>] :
             f \in FinishReasons, s \in {"nocontent", "noparts", "parts"} }
    ELSE { [finishReason |-> f, shape |-> "parts", parts |-> ps] :
             f \in FinishReasons, ps \in PartSeqs(n) }

RECURSIVE CandSeqs(_)
CandSeqs(size) ==
    IF size <= 0 THEN { <<>> }
    ELSE { <<>> } \cup
         UNION { { <<c>> \o rest : c \in CandidatesOf(n),
                                   rest \in CandSeqs(size - 1 - n) } :
                 n \in 0..(size - 1) }

NoBody == [shape |-> "none", candidates |-> <<>>]
\* Bodies of a 200 response: not JSON at all, JSON without a candidates
\* key, or JSON with a candidates list.
Bodies ==
    { [shape |-> "notjson", candidates |-> <<>>],
      [shape |-> "nocandidates", candidates |-> <<>>] } \cup
    { [shape |-> "candidates", candidates |-> cs] : cs \in CandSeqs(MaxBodySize) }

NoResponse == [status |-> "None", body |-> NoBody]

\* ------------------------------------------------------------- helpers
Min(a, b) == IF a < b THEN a ELSE b

\* Mutant: only an unset variable counts as missing (`if api_key is None`).
KeyMissing_OnlyUnset(k) == k = "absent"

\* `if not api_key`: an unset variable and an empty one are both missing.
KeyMissing(k) == k \in {"absent", "empty"}

\* Mutant: every status other than 200 is retried like a 429.
Classify_RetryAnyStatus(o) ==
    CASE o = "200" -> "success"
      [] o = "Timeout" -> "timeout"
      [] o = "RequestException" -> "network"
      [] OTHER -> "rate_limited"

\* How the retry loop of generate_image reads the end of one attempt.
Classify(o) ==
    CASE o = "200" -> "success"
      [] o = "429" -> "rate_limited"
      [] o = "Timeout" -> "timeout"
      [] o = "RequestException" -> "network"
      [] OTHER -> "terminal"

\* Mutant: the increment of retry_count is forgotten.
NextRetryCount_Forgotten(rc) == rc

\* `retry_count += 1`
NextRetryCount(rc) == rc + 1

\* Mutant: the last retry is given up one attempt early.
ShouldRetry_OneShort(rc) == rc < max_retries - 1

\* `if retry_count < max_retries` after a retryable failure; the same test
\* is the guard of the while loop.
ShouldRetry(rc) == rc < max_retries

\* Mutant: the wait is computed from the count before its increment.
wait_time_Early(rc) == 2 ^ (rc - 1)

\* `wait_time = 2 ** retry_count`
wait_time(rc) == 2 ^ rc

\* The exit message of a retryable failure that has used up the attempts.
ExhaustedFailure(class) ==
    CASE class = "rate_limited" -> "RateLimited"
      [] class = "timeout" -> "Timeout"
      [] OTHER -> "NetworkError"

\* ---------------------------------------------------- response extraction
\* `if image_data_b64:` on `part['inlineData'].get('data')`
HasData(d) == d \notin {"absent", "nodata"}

\* base64.standard_b64decode of the data of a part
b64decode(d) == IF d = "imgA" THEN "bytesA" ELSE "bytesB"

\* Mutant: the text diagnostic is not cut.
Shown_Uncut(t) == [text |-> t, len |-> TextLen(t)]

\* The text diagnostic of a part: `part['text'][:100]`
Shown(t) == [text |-> t, len |-> Min(TextLen(t), text_shown)]

\* State of the walk: whether the image was saved, what the output file
\* holds, how often it was opened for writing, and the text diagnostics
\* printed so far.
WalkStart == [kind |-> "none", bytes |-> "none", writes |-> 0, warn |-> <<>>]

\* Mutant: the file is written but image_saved is not set.
SavePart_FlagNotSet(d, acc) ==
    [kind |-> "none", bytes |-> b64decode(d), writes |-> acc.writes + 1,
     warn |-> acc.warn]

\* An inline part with data: decode, write the output file, set image_saved.
SavePart(d, acc) ==
    [kind |-> "saved", bytes |-> b64decode(d), writes |-> acc.writes + 1,
     warn |-> acc.warn]

\* The body of `for part in candidate['content']['parts']`.
PartStep(part, acc) ==
    IF part.inlineData # "absent"
    THEN IF HasData(part.inlineData) THEN SavePart(part.inlineData, acc) ELSE acc
    ELSE IF part.text # "absent"
         THEN [acc EXCEPT !.warn = Append(acc.warn, Shown(part.text))]
         ELSE acc

\* Mutant: the `break` after the save is forgotten, the parts that follow in
\* the candidate are still looked at.
RECURSIVE WalkParts_NoBreak(_, _, _)
WalkParts_NoBreak(parts, j, acc) ==
    IF j > Len(parts) THEN acc
    ELSE WalkParts_NoBreak(parts, j + 1, PartStep(parts[j], acc))

RECURSIVE WalkParts(_, _, _)
WalkParts(parts, j, acc) ==
    IF j > Len(parts) \/ acc.kind # "none" THEN acc
    ELSE WalkParts(parts, j + 1, PartStep(parts[j], acc))

\* The body of `for candidate in response_json['candidates']`.
RECURSIVE WalkCandidates(_, _, _)
WalkCandidates(cands, i, acc) ==
    IF i > Len(cands) \/ acc.kind # "none" THEN acc
    ELSE IF cands[i].finishReason = "NO_IMAGE"
         THEN [acc EXCEPT !.kind = "no_image"]
         ELSE IF cands[i].shape # "parts"
              THEN WalkCandidates(cands, i + 1, acc)
              ELSE WalkCandidates(cands, i + 1, WalkParts(cands[i].parts, 1, acc))

\* generate_image from response.json() to the final test of image_saved.
ExtractImage(body) ==
    IF body.shape = "notjson" THEN [WalkStart EXCEPT !.kind = "raise"]
    ELSE IF body.shape = "nocandidates" THEN WalkStart
    ELSE WalkCandidates(body.candidates, 1, WalkStart)

\* detect_room: result['candidates'][0]['content']['parts'][0]['text']
ExtractText(body) ==
    IF /\ body.shape = "candidates"
       /\ Len(body.candidates) >= 1
       /\ body.candidates[1].shape = "parts"
       /\ Len(body.candidates[1].parts) >= 1
       /\ body.candidates[1].parts[1].text # "absent"
    THEN body.candidates[1].parts[1].text
    ELSE "raise"

\* The shopping functions: JSON found in the reply and parsed, or the raw text.
ParseReply(reply) == IF reply = "json" THEN "parsed" ELSE "raw"

\* ----------------------------------------------------------------- state
VARIABLES
    entry,        \* the entry point invoked
    api_key,      \* GEMINI_API_KEY in the environment
    file_exists,  \* whether the input path exists
    image_len,    \* byte length of the input file
    pc,           \* position in the entry point's code
    image_data,   \* length of the bytes read from the input, -1 before the read
    retry_count,
    response,     \* the last response received by generate_image / detect_room
    requests,     \* the network requests issued so far, in order
    outcomes,     \* how each request ended, in order
    sleeps,       \* the time.sleep calls performed so far, in order
    output_file,  \* content of the output path, "none" while not written
    file_writes,  \* how many times the output path was opened and written
    stderr_text,  \* the "API returned text instead of image" diagnostics
    stdout,       \* what the entry point printed or returned
    exit_code,    \* -1 while running, 0 on success, 1 on failure
    failure       \* which exit or exception ended the run

vars == <<entry, api_key, file_exists, image_len, pc, image_data, retry_count,
          response, requests, outcomes, sleeps, output_file, file_writes,
          stderr_text, stdout, exit_code, failure>>

env == <<entry, api_key, file_exists, image_len>>

Init ==
    /\ entry \in Entries
    /\ api_key \in ApiKeys
    /\ file_exists \in BOOLEAN
    /\ image_len \in ImageLens
    /\ entry \notin ImageEntries => (~file_exists /\ image_len = 0)
    /\ ~file_exists => image_len = 0
    /\ pc = "start"
    /\ image_data = -1
    /\ retry_count = 0
    /\ response = NoResponse
    /\ requests = <<>>
    /\ outcomes = <<>>
    /\ sleeps = <<>>
    /\ output_file = "none"
    /\ file_writes = 0
    /\ stderr_text = <<>>
    /\ stdout = "none"
    /\ exit_code = -1
    /\ failure = "none"

\* The run ends: sys.exit(code), a return, or an exception nobody handles.
Finish(code, kind) ==
    /\ pc' = "done"
    /\ exit_code' = code
    /\ failure' = kind

Goto(label) ==
    /\ pc' = label
    /\ UNCHANGED <<exit_code, failure>>

\* One request leaves the process.
Send(api, o) ==
    /\ requests' = Append(requests, [api |-> api, image_len |-> image_data])
    /\ outcomes' = Append(outcomes, o)

\* ------------------------------------------------------- generate_image
GI_CheckKey ==
    /\ pc = "start" /\ entry = "generate_image"
    /\ IF KeyMissing(api_key)
       THEN Finish(1, "ConfigurationError")
       ELSE Goto("load")
    /\ UNCHANGED <<env, image_data, retry_count, response, requests, outcomes,
                   sleeps, output_file, file_writes, stderr_text, stdout>>

\* exists test, read, the two size tests; then the payload is built and the
\* retry loop is entered with retry_count = 0 and response = None.
GI_LoadImage ==
    /\ pc = "load" /\ entry = "generate_image"
    /\ IF ~file_exists
       THEN Finish(1, "InputNotFound") /\ UNCHANGED image_data
       ELSE /\ image_data' = image_len
            /\ IF image_len = 0 THEN Finish(1, "EmptyInput")
               ELSE IF image_len < min_image_size THEN Finish(1, "InputTooSmall")
               ELSE IF ShouldRetry(0) THEN Goto("post")
               ELSE Finish(1, "NoValidResponse")
    /\ retry_count' = 0
    /\ response' = NoResponse
    /\ UNCHANGED <<env, requests, outcomes, sleeps, output_file, file_writes, stderr_text,
                   stdout>>

\* One pass of the loop body: requests.post and the handling of its outcome
\* up to break, sys.exit or the sleep.
GI_Post ==
    /\ pc = "post" /\ entry = "generate_image"
    /\ \E o \in Outcomes :
       \E b \in (IF o = "200" THEN Bodies ELSE {NoBody}) :
          LET class == Classify(o)
              rc == NextRetryCount(retry_count)
          IN /\ Send("gemini-image", o)
             /\ response' = IF o \in Statuses THEN [status |-> o, body |-> b]
                            ELSE response
             /\ IF class = "success"
                THEN Goto("extract") /\ UNCHANGED retry_count
                ELSE IF class = "terminal"
                THEN Finish(1, "HttpError") /\ UNCHANGED retry_count
                ELSE /\ retry_count' = rc
                     /\ IF ShouldRetry(rc) THEN Goto("backoff")
                        ELSE Finish(1, ExhaustedFailure(class))
    /\ UNCHANGED <<env, image_data, sleeps, output_file, file_writes, stderr_text, stdout>>

\* time.sleep(wait_time); continue; the while guard is tested again and, if
\* it fails, the test after the loop ends the run.
GI_Backoff ==
    /\ pc = "backoff" /\ entry = "generate_image"
    /\ sleeps' = Append(sleeps, wait_time(retry_count))
    /\ IF retry_count < max_retries THEN Goto("post")
       ELSE Finish(1, "NoValidResponse")
    /\ UNCHANGED <<env, image_data, retry_count, response, requests, outcomes,
                   output_file, file_writes, stderr_text, stdout>>

\* response.json(), the walk over candidates and parts, the final test.
GI_Extract ==
    /\ pc = "extract" /\ entry = "generate_image"
    /\ LET r == ExtractImage(response.body)
       IN /\ output_file' = r.bytes
          /\ file_writes' = r.writes
          /\ stderr_text' = r.warn
          /\ CASE r.kind = "saved" -> Finish(0, "none")
               [] r.kind = "no_image" -> Finish(1, "NoImageProduced")
               [] r.kind = "raise" -> Finish(1, "Exception")
               [] OTHER -> Finish(1, "NoImageData")
    /\ UNCHANGED <<env, image_data, retry_count, response, requests, outcomes,
                   sleeps, stdout>>

\* ---------------------------------------------------------- detect_room
DR_CheckKey ==
    /\ pc = "start" /\ entry = "detect_room"
    /\ IF KeyMissing(api_key)
       THEN Finish(1, "ConfigurationError")
       ELSE Goto("load")
    /\ UNCHANGED <<env, image_data, retry_count, response, requests, outcomes,
                   sleeps, output_file, file_writes, stderr_text, stdout>>

\* open(...).read() and the encoding; a missing file raises out of the
\* function.  No test of the length.
DR_ReadImage ==
    /\ pc = "load" /\ entry = "detect_room"
    /\ IF ~file_exists
       THEN Finish(1, "Unhandled") /\ UNCHANGED image_data
       ELSE image_data' = image_len /\ Goto("post")
    /\ UNCHANGED <<env, retry_count, response, requests, outcomes, sleeps,
                   output_file, file_writes, stderr_text, stdout>>

\* The single requests.post: an exception raises out of the function, a
\* status other than 200 exits.
DR_Post ==
    /\ pc = "post" /\ entry = "detect_room"
    /\ \E o \in Outcomes :
       \E b \in (IF o = "200" THEN Bodies ELSE {NoBody}) :
          /\ Send("gemini-vision", o)
          /\ response' = IF o \in Statuses THEN [status |-> o, body |-> b]
                         ELSE response
          /\ IF o \in Exceptions THEN Finish(1, "Unhandled")
             ELSE IF o # "200" THEN Finish(1, "HttpError")
             ELSE Goto("extract")
    /\ UNCHANGED <<env, image_data, retry_count, sleeps, output_file, file_writes,
                   stderr_text, stdout>>

DR_Extract ==
    /\ pc = "extract" /\ entry = "detect_room"
    /\ LET t == ExtractText(response.body)
       IN IF t = "raise"
          THEN Finish(1, "Unhandled") /\ UNCHANGED stdout
          ELSE Finish(0, "none") /\ stdout' = t
    /\ UNCHANGED <<env, image_data, retry_count, response, requests, outcomes,
                   sleeps, output_file, file_writes, stderr_text>>

\* ------------------------------------------------ gemini_shopping_list.py
Replies == {"json", "nojson", "badjson"}

\* client.messages.create and the parse of the reply; an error of the
\* client raises out of the function.
MessagesCall ==
    \E o \in Replies \cup {"APIError"} :
       /\ Send("anthropic", o)
       /\ IF o = "APIError"
          THEN Finish(1, "Unhandled") /\ UNCHANGED stdout
          ELSE Finish(0, "none") /\ stdout' = ParseReply(o)

SL_CheckKey ==
    /\ pc = "start" /\ entry = "generate_shopping_list"
    /\ IF KeyMissing(api_key)
       THEN Finish(1, "ConfigurationError")
       ELSE Goto("config")
    /\ UNCHANGED <<env, image_data, retry_count, response, requests, outcomes,
                   sleeps, output_file, file_writes, stderr_text, stdout>>

SL_LoadConfig ==
    /\ pc = "config" /\ entry = "generate_shopping_list"
    /\ \E config_exists \in BOOLEAN :
          IF config_exists THEN Goto("call") ELSE Finish(1, "ConfigNotFound")
    /\ UNCHANGED <<env, image_data, retry_count, response, requests, outcomes,
                   sleeps, output_file, file_writes, stderr_text, stdout>>

SL_Call ==
    /\ pc = "call" /\ entry = "generate_shopping_list"
    /\ MessagesCall
    /\ UNCHANGED <<env, image_data, retry_count, response, sleeps, output_file, file_writes,
                   stderr_text>>

PR_CheckKey ==
    /\ pc = "start" /\ entry = "generate_product_recommendations"
    /\ IF KeyMissing(api_key)
       THEN Finish(1, "ConfigurationError")
       ELSE Goto("call")
    /\ UNCHANGED <<env, image_data, retry_count, response, requests, outcomes,
                   sleeps, output_file, file_writes, stderr_text, stdout>>

PR_Call ==
    /\ pc = "call" /\ entry = "generate_product_recommendations"
    /\ MessagesCall
    /\ UNCHANGED <<env, image_data, retry_count, response, sleeps, output_file, file_writes,
                   stderr_text>>

\* ---------------------------------------------------------- specification
Next ==
    \/ GI_CheckKey \/ GI_LoadImage \/ GI_Post \/ GI_Backoff \/ GI_Extract
    \/ DR_CheckKey \/ DR_ReadImage \/ DR_Post \/ DR_Extract
    \/ SL_CheckKey \/ SL_LoadConfig \/ SL_Call
    \/ PR_CheckKey \/ PR_Call

Spec == Init /\ [][Next]_vars

TypeOK ==
    /\ pc \in {"start", "load", "post", "backoff", "extract", "config", "call", "done"}
    /\ retry_count \in 0..max_retries
    /\ exit_code \in {-1, 0, 1}
    /\ (pc = "done") <=> (exit_code # -1)

\* ---------------------------------------------------------------- claims
IsGI == entry = "generate_image"
Attempts == Len(requests)
Last(seq) == seq[Len(seq)]
Range(seq) == { seq[i] : i \in 1..Len(seq) }
TransportFailures == {"RateLimited", "Timeout", "NetworkError", "HttpError",
                      "NoValidResponse"}

\* C1: in generate_image, whatever the attempts end in, the number of HTTP
\* attempts issued in one invocation never exceeds maxAttempts = 3.
C1_AttemptsBounded == IsGI => Attempts <= maxAttempts

C1_Witness ==
    /\ IsGI /\ pc = "done"
    /\ outcomes = <<"Timeout", "429", "RequestException">>
    /\ Attempts = maxAttempts

\* C2: with 429 on the first two attempts and 200 on the third, the
\* transport sleeps 2 s after attempt 1 (before attempt 2), 4 s after
\* attempt 2 (before attempt 3), and leaves the loop with the 200 response
\* after exactly 3 attempts, with no further sleep.
C2_TwoRateLimitsThenSuccess ==
    IsGI =>
      /\ outcomes = <<"429">> =>
            \/ pc = "backoff" /\ sleeps = <<>>
            \/ pc = "post" /\ sleeps = <<2>>
      /\ outcomes = <<"429", "429">> =>
            \/ pc = "backoff" /\ sleeps = <<2>>
            \/ pc = "post" /\ sleeps = <<2, 4>>
      /\ outcomes = <<"429", "429", "200">> =>
            /\ sleeps = <<2, 4>>
            /\ Attempts = 3
            /\ pc \in {"extract", "done"}
            /\ response.status = "200"
            /\ failure \notin TransportFailures

C2_Witness ==
    /\ IsGI /\ pc = "extract"
    /\ outcomes = <<"429", "429", "200">>
    /\ sleeps = <<2, 4>>

\* C3: an attempt that returns a status other than 200 and 429 ends the
\* run at once with a terminal failure: it is the last attempt, no sleep
\* follows it, and the output file is not written.
C3_OtherStatusIsTerminal ==
    IsGI =>
      \A i \in 1..Len(outcomes) :
         outcomes[i] \in Statuses \ {"200", "429"} =>
            /\ i = Len(outcomes)
            /\ Attempts = i
            /\ Len(sleeps) = i - 1
            /\ pc = "done" /\ exit_code = 1 /\ failure = "HttpError"
            /\ output_file = "none"

C3_Witness ==
    /\ IsGI /\ pc = "done"
    /\ outcomes = <<"500">>
    /\ Attempts = 1 /\ sleeps = <<>>

\* C4: if every attempt ends in a retryable failure (429, timeout, network
\* exception, in any mix) the run makes exactly 3 attempts and then ends
\* with a terminal failure; success is never reported without a 200; and
\* every run ends.
C4_Safety ==
    IsGI =>
      /\ (pc = "done" /\ outcomes # <<>> /\ Range(outcomes) \subseteq Retryable) =>
            /\ Attempts = maxAttempts
            /\ exit_code = 1
            /\ failure \in {"RateLimited", "Timeout", "NetworkError"}
            /\ output_file = "none"
      /\ (Range(outcomes) \subseteq Retryable /\ pc # "done") => Attempts < maxAttempts
      /\ exit_code = 0 => (outcomes # <<>> /\ Last(outcomes) = "200")

\* An upper bound on the steps the run can still take: it drops with every
\* step, so no run goes on forever, and a run that has not ended can step.
C4_Variant ==
    CASE pc = "done" -> 0
      [] pc \in {"extract", "call"} -> 1
      [] pc = "config" -> 2
      [] pc = "post" -> 2 * (maxAttempts - retry_count) + 2
      [] pc = "backoff" -> 2 * (maxAttempts - retry_count) + 3
      [] pc = "load" -> 2 * maxAttempts + 3
      [] OTHER -> 2 * maxAttempts + 4

C4_ExhaustionIsTerminal ==
    /\ [](C4_Safety /\ C4_Variant >= 0 /\ (pc # "done" => ENABLED Next))
    /\ [][C4_Variant' < C4_Variant]_vars

C4_Witness ==
    /\ IsGI /\ pc = "done"
    /\ outcomes = <<"429", "Timeout", "RequestException">>
    /\ failure = "NetworkError"

\* C5: the backoff wait following retryable failed attempt number n is
\* exactly 2^n seconds, for n = 1, 2 and 3 (2 s, 4 s, 8 s), the same for
\* 429, timeout and network exception, whatever the server sent.
C5_BackoffAfterEveryRetryable ==
    IsGI =>
      \A n \in 1..Len(outcomes) :
         (outcomes[n] \in Retryable /\ ~(n = Len(outcomes) /\ pc = "backoff")) =>
            /\ Len(sleeps) >= n
            /\ sleeps[n] = 2 ^ n

\* C6: an input image shorter than 10,000 bytes (0 bytes included) is
\* rejected as an input failure and is never carried by a request to the
\* remote service.
C6_SmallImageNeverSubmitted ==
    /\ \A i \in 1..Len(requests) :
          requests[i].api \in {"gemini-image", "gemini-vision"} =>
             requests[i].image_len >= min_image_size
    /\ (pc = "done" /\ image_data >= 0 /\ image_data < min_image_size) =>
          /\ requests = <<>>
          /\ exit_code = 1
          /\ failure \in {"EmptyInput", "InputTooSmall"}

\* The candidates of the 200 response generate_image is extracting from.
Cands == response.body.candidates
GotBody == IsGI /\ pc = "done" /\ response.status = "200"

\* All parts of the candidates, in the order of the lists.
RECURSIVE PartsFrom(_, _)
PartsFrom(cands, i) ==
    IF i > Len(cands) THEN <<>>
    ELSE cands[i].parts \o PartsFrom(cands, i + 1)
AllParts == PartsFrom(Cands, 1)

AnyNoImage == \E i \in 1..Len(Cands) : Cands[i].finishReason = "NO_IMAGE"
AnyBinary == \E j \in 1..Len(AllParts) : AllParts[j].inlineData \in {"imgA", "imgB"}

\* C7: if any candidate, at any position, has finishReason NO_IMAGE, the
\* extraction fails with NoImageProduced and writes no output file, even
\* when another candidate, earlier or later, holds a valid inline image.
C7_NoImageAnywhereFails ==
    (GotBody /\ AnyNoImage) =>
       /\ failure = "NoImageProduced"
       /\ exit_code = 1
       /\ output_file = "none"

\* The failure of the extraction in the specification's names: the exit
\* after the walk is UnexpectedTextResponse when a text diagnostic was
\* printed and NoContent when none was.
ExtractionOutcome ==
    IF failure = "NoImageData"
    THEN IF stderr_text # <<>> THEN "UnexpectedTextResponse" ELSE "NoContent"
    ELSE failure

AnyText == \E j \in 1..Len(AllParts) : AllParts[j].text # "absent"

\* C8 as stated: a 200 response with a text part and no inline binary data
\* anywhere ends in UnexpectedTextResponse carrying that text in full.
C8_TextOnlyIsUnexpectedText ==
    (GotBody /\ AnyText /\ ~AnyBinary) =>
       /\ ExtractionOutcome = "UnexpectedTextResponse"
       /\ \A j \in 1..Len(AllParts) :
             AllParts[j].text # "absent" =>
                [text |-> AllParts[j].text, len |-> TextLen(AllParts[j].text)]
                   \in Range(stderr_text)

\* What the diagnostic shows of a text: its first 100 characters.
First100(t) ==
    [text |-> t, len |-> IF TextLen(t) > 100 THEN 100 ELSE TextLen(t)]

\* The texts of the parts that have no inlineData key, in order, cut.
RECURSIVE PlainTexts(_, _)
PlainTexts(parts, j) ==
    IF j > Len(parts) THEN <<>>
    ELSE IF parts[j].inlineData = "absent" /\ parts[j].text # "absent"
         THEN <<First100(parts[j].text)>> \o PlainTexts(parts, j + 1)
         ELSE PlainTexts(parts, j + 1)

\* C8 amended: in a 200 response where no candidate has finishReason
\* NO_IMAGE and no part holds inline binary data, the run prints the first
\* 100 characters of the text of every part that has no inlineData key, in
\* order, and then ends with the "no image data" failure, without an output
\* file; with at least one such part that is UnexpectedTextResponse, with
\* none it is NoContent.
C8_TextDiagnosticThenFailure ==
    (GotBody /\ response.body.shape # "notjson" /\ ~AnyNoImage /\ ~AnyBinary) =>
       /\ failure = "NoImageData" /\ exit_code = 1 /\ output_file = "none"
       /\ stderr_text = PlainTexts(AllParts, 1)
       /\ ExtractionOutcome =
             IF PlainTexts(AllParts, 1) # <<>> THEN "UnexpectedTextResponse"
             ELSE "NoContent"

C8_Witness ==
    /\ GotBody /\ ~AnyNoImage /\ ~AnyBinary
    /\ stderr_text = <<[text |-> "long", len |-> 100]>>
    /\ failure = "NoImageData"

\* C9: the output file is written only after a 200 response in which an
\* inline image part was found and decoded, and then the run succeeds; a
\* run that ends in a failure has not written the output file.
C9_OutputOnlyOnSuccess ==
    /\ output_file # "none" =>
          /\ IsGI /\ pc = "done" /\ exit_code = 0
          /\ response.status = "200" /\ Last(outcomes) = "200"
          /\ \E j \in 1..Len(AllParts) :
                /\ AllParts[j].inlineData \in {"imgA", "imgB"}
                /\ output_file = (IF AllParts[j].inlineData = "imgA"
                                  THEN "bytesA" ELSE "bytesB")
    /\ exit_code = 1 => output_file = "none"

C9_Witness ==
    /\ IsGI /\ exit_code = 0 /\ output_file = "bytesB"
    /\ outcomes = <<"Timeout", "200">>

\* C10: with GEMINI_API_KEY absent or empty, every entry point fails at
\* its first step, and no network request is ever issued.
C10_NoKeyNoRequest ==
    api_key \in {"absent", "empty"} =>
       /\ requests = <<>>
       /\ pc \in {"start", "done"}
       /\ pc = "done" => (exit_code = 1 /\ failure = "ConfigurationError")

C10_Witness ==
    /\ api_key = "empty" /\ pc = "done"
    /\ entry = "generate_shopping_list"
    /\ failure = "ConfigurationError" /\ requests = <<>>

IsBinary(part) == part.inlineData \in {"imgA", "imgB"}

\* Position, in list order over candidates and then parts, of the first
\* part that holds inline binary data.
FirstBinary ==
    CHOOSE j \in 1..Len(AllParts) :
       /\ IsBinary(AllParts[j])
       /\ \A k \in 1..(j - 1) : ~IsBinary(AllParts[k])

\* C11: in a 200 response where no candidate has finishReason NO_IMAGE,
\* candidates and their parts are walked in list order; the bytes written
\* are the decoding of the first part that holds inline binary data; the
\* scan stops there (the text diagnostics printed are those of the parts
\* before it, no later part is looked at); and the output file is written
\* exactly once, never more than once in any invocation.
C11_FirstImageWrittenOnce ==
    /\ file_writes <= 1
    /\ (GotBody /\ ~AnyNoImage /\ AnyBinary) =>
          /\ exit_code = 0 /\ failure = "none"
          /\ file_writes = 1
          /\ output_file = (IF AllParts[FirstBinary].inlineData = "imgA"
                            THEN "bytesA" ELSE "bytesB")
          /\ stderr_text = PlainTexts(SubSeq(AllParts, 1, FirstBinary - 1), 1)

\* A text part, then image A, then image B in one candidate: A is written.
C11_Witness ==
    /\ GotBody /\ ~AnyNoImage
    /\ Len(Cands) = 1 /\ Len(AllParts) = 3
    /\ AllParts[1].text = "short" /\ AllParts[1].inlineData = "absent"
    /\ AllParts[2].inlineData = "imgA"
    /\ AllParts[3].inlineData = "imgB"
    /\ output_file = "bytesA" /\ file_writes = 1
    /\ stderr_text = <<[text |-> "short", len |-> 12]>>

\* C12: for a 200 response body that is JSON, neither extractor ends in an
\* exception: generate_image and detect_room alike end a body from which
\* nothing can be extracted (no candidates key, empty candidates, no
\* content, no parts, empty parts, a part with neither inlineData nor text,
\* inlineData without data) in a diagnosed failure.
C12_ExtractionFailsClosed ==
    (pc = "done" /\ entry \in ImageEntries /\ response.status = "200"
        /\ response.body.shape # "notjson") =>
       /\ failure \notin {"Unhandled", "Exception"}
       /\ (IsGI /\ ~AnyNoImage /\ ~AnyBinary) =>
             (exit_code = 1 /\ failure = "NoImageData" /\ output_file = "none")

====
